---- MODULE Spec2Model ----
(***************************************************************************)
(* charify (src/src/main.rs): conversion of a still image or of the frames *)
(* of a GIF to character art, and the terminal playback of the result.     *)
(*                                                                         *)
(* Images are uniform: every pixel has the same grey level px (r = g = b), *)
(* so that the library calls the program makes on the pixels               *)
(* (resize_exact, grayscale, to_luma8, gaussian_blur_f32) leave the pixel  *)
(* value as it is and the rendered text is described by its row count, its *)
(* column count and the one cell every position holds.                     *)
(*                                                                         *)
(* Floating-point values are pairs <<n, d>>: the rational n/d when d > 0,  *)
(* and NaN <<0, 0>>, +inf <<1, 0>>, -inf <<-1, 0>> when d = 0.  The        *)
(* contrast factors of the model are dyadic, so f32 and f64 arithmetic on  *)
(* them is exact and the rational arithmetic below gives the value the     *)
(* program computes.                                                       *)
(***************************************************************************)
EXTENDS Integers, Sequences, FiniteSets, TLC

VARIABLES
    args,             \* Args: width, invert, contrast, loop_gif, color
    overflow_checks,  \* build profile: TRUE when integer overflow panics
    file,             \* the input file: what detection and decoding give
    termOpen,         \* standard output still accepts a flush
    pc,               \* position of main
    format,           \* main's local `format`
    frames,           \* main's local `frames` (or the one still image)
    i,                \* index of the conversion loop (1-based)
    ascii_frames,     \* main's local `ascii_frames`: <<text, delay in ms>>
    ascii_art,        \* main's local `ascii_art` of the still-image branch
    k,                \* index of the playback loop (1-based)
    result,           \* "Running", "Ok", "Err" or "Panic"
    calls,            \* history: number of calls of image_to_ascii
    clears,           \* history: number of screen clears emitted
    pass,             \* history: number of passes begun (saturating)
    log               \* history: terminal events of the current pass

vars == <<args, overflow_checks, file, termOpen, pc, format, frames, i,
          ascii_frames, ascii_art, k, result, calls, clears, pass, log>>

---------------------------------------------------------------------------
(* Bounds of the model *)

MaxFrames == 2      \* frames of a GIF
MaxCount == 2       \* saturation of the history counters
MaxDim == 5         \* source width and height of the rendering sweep
MaxWidth == 11      \* target width of the rendering sweep

---------------------------------------------------------------------------
(* Program constants *)

ASCII_CHARS_SIMPLE == <<" ", ".", ":", "-", "=", "+", "*", "#", "%", "@">>

ASCII_LEN_SIMPLE == Len(ASCII_CHARS_SIMPLE)

\* 0.55 as a fraction
ASPECT_RATIO_CORRECTION == <<55, 100>>

MIN_FRAME_DELAY_MS == 20

---------------------------------------------------------------------------
(* Arithmetic *)

Max(a, b) == IF a >= b THEN a ELSE b

Min(a, b) == IF a <= b THEN a ELSE b

NaN == <<0, 0>>

IsFinite(x) == x[2] > 0

FromInt(n) == <<n, 1>>

\* x * m for a float x and an integer-valued m (inf * 0 is NaN)
FMulInt(x, m) ==
    IF IsFinite(x) THEN <<x[1] * m, x[2]>>
    ELSE IF x = NaN \/ m = 0 THEN NaN
    ELSE IF m > 0 THEN x ELSE <<-x[1], 0>>

\* x + m
FAddInt(x, m) == IF IsFinite(x) THEN <<x[1] + m * x[2], x[2]>> ELSE x

\* m - x
FSubFrom(m, x) ==
    IF IsFinite(x) THEN <<m * x[2] - x[1], x[2]>> ELSE <<-x[1], 0>>

\* f32::clamp: NaN stays NaN
FClamp(x, lo, hi) ==
    IF IsFinite(x)
    THEN IF x[1] < lo * x[2] THEN FromInt(lo)
         ELSE IF x[1] > hi * x[2] THEN FromInt(hi)
         ELSE x
    ELSE IF x = NaN THEN NaN
    ELSE IF x[1] > 0 THEN FromInt(hi) ELSE FromInt(lo)

\* f64::round of n/d (d > 0): to the nearest integer, halves away from zero
RoundHalfAway(n, d) ==
    IF n >= 0 THEN (2 * n + d) \div (2 * d)
    ELSE -((2 * (-n) + d) \div (2 * d))

\* `as usize` of an integer-valued float: negative values saturate to 0
AsUsize(z) == IF z < 0 THEN 0 ELSE z

\* floor((2^32 - 1) / m) for 2 <= m < 2^30, within 32-bit signed arithmetic
U32MaxDiv(m) ==
    2 * (2147483647 \div m) + (2 * (2147483647 % m) + 1) \div m

---------------------------------------------------------------------------
(* image_to_ascii *)

\* LastIndex with ascii_len taken for ascii_len - 1
LastIndexOffByOne == ASCII_LEN_SIMPLE

\* `ascii_len - 1`, the scale of the index and its upper clamp
LastIndex == ASCII_LEN_SIMPLE - 1

\* NewHeight without .max(1.0)
NewHeightNoFloor(img, width) ==
    (img.height * width * ASPECT_RATIO_CORRECTION[1])
        \div (ASPECT_RATIO_CORRECTION[2] * img.width)

\* NewHeight with the quotient rounded to the nearest integer
NewHeightRounded(img, width) ==
    Max(1, RoundHalfAway(img.height * width * ASPECT_RATIO_CORRECTION[1],
                         ASPECT_RATIO_CORRECTION[2] * img.width))

\* new_height: height * width * 0.55 / img.width, .max(1.0), `as u32`
\* (the cast truncates; the values of the model stay far below u32::MAX,
\* where it would saturate)
NewHeight(img, width) ==
    LET x == <<img.height * width * ASPECT_RATIO_CORRECTION[1],
               ASPECT_RATIO_CORRECTION[2] * img.width>>
        m == IF x[1] < x[2] THEN FromInt(1) ELSE x
    IN  m[1] \div m[2]

\* the u32 argument of ascii_art.reserve exceeds u32::MAX:
\* width * new_height * 20 + new_height in colour mode,
\* width * new_height + new_height otherwise.  No operand is negative, so a
\* step overflows exactly when the whole value does.
ReserveOverflows(width, new_height, use_color) ==
    LET m == (IF use_color THEN 20 ELSE 1) * width + 1
    IN  m >= 2 /\ new_height > U32MaxDiv(m)

\* the luminance of a pixel: the luma channel in greyscale mode, the weighted
\* sum 0.2126 r + 0.7152 g + 0.0722 b in colour mode; for a grey pixel both
\* are its grey level
Luminance(px, use_color) == px

\* `contrast != 1.0`: true of NaN and of the infinities
ContrastApplies(contrast) == ~(IsFinite(contrast) /\ contrast[1] = contrast[2])

AdjustedLuminance(luminance, contrast) ==
    IF ContrastApplies(contrast)
    THEN FClamp(FAddInt(FMulInt(contrast, luminance - 128), 128), 0, 255)
    ELSE FromInt(luminance)

\* MappedIntensity with the inversion taken from 256
MappedIntensityFrom256(adjusted_luminance, invert) ==
    IF invert THEN FSubFrom(256, adjusted_luminance) ELSE adjusted_luminance

MappedIntensity(adjusted_luminance, invert) ==
    IF invert THEN FSubFrom(255, adjusted_luminance) ELSE adjusted_luminance

\* ((mapped_intensity / 255.0) * (ascii_len - 1) as f64).round() as usize;
\* the value is finite or NaN here (NaN casts to 0)
CharIndex(mapped_intensity) ==
    IF IsFinite(mapped_intensity)
    THEN AsUsize(RoundHalfAway(mapped_intensity[1] * LastIndex,
                               255 * mapped_intensity[2]))
    ELSE 0

\* char_index.min(ascii_len - 1): the index the ramp is read at
RampIndex(char_index) == Min(char_index, LastIndex)

\* the index image_to_ascii reads the ramp at for one pixel
PixelIndex(px, invert, contrast, use_color) ==
    RampIndex(CharIndex(MappedIntensity(
        AdjustedLuminance(Luminance(px, use_color), contrast), invert)))

Panicked == [kind |-> "Panic", rows |-> 0, cols |-> 0, character |-> "", fg |-> <<>>]

\* The text of a uniform image: `rows` lines of `cols` cells, every cell the
\* character (after the colour code fg in colour mode), every line ended by
\* the reset code in colour mode and a newline.  A checked overflow and an
\* index outside the ramp panic.
image_to_ascii(img, width, invert, contrast, use_color, checks) ==
    LET new_height == NewHeight(img, width)
        at == PixelIndex(img.px, invert, contrast, use_color)
    IN  IF checks /\ ReserveOverflows(width, new_height, use_color)
        THEN Panicked
        ELSE IF width = 0
        THEN [kind |-> "Ok", rows |-> new_height, cols |-> 0,
              character |-> "", fg |-> <<>>]
        ELSE IF at >= ASCII_LEN_SIMPLE
        THEN Panicked
        ELSE [kind |-> "Ok", rows |-> new_height, cols |-> width,
              character |-> ASCII_CHARS_SIMPLE[at + 1],
              fg |-> IF use_color THEN <<img.px, img.px, img.px>> ELSE <<>>]

NoText == [kind |-> "None", rows |-> 0, cols |-> 0, character |-> "", fg |-> <<>>]

---------------------------------------------------------------------------
(* Inputs *)

One == <<1, 1>>

\* decoded GIF frames: a 2x2 buffer and a delay <<numerator, denominator>> ms
GifFrames ==
    { [width |-> 2, height |-> 2, px |-> 0,   delay |-> <<0, 1>>],
      [width |-> 2, height |-> 2, px |-> 255, delay |-> <<61, 2>>],
      [width |-> 2, height |-> 2, px |-> 128, delay |-> <<100, 1>>] }

StillImages == { [width |-> 2, height |-> 2, px |-> p] : p \in {0, 255} }

SeqsUpTo(S, n) == UNION { [1..m -> S] : m \in 0..n }

\* what the file at args.input is: the format its path maps to, whether it
\* can be opened and decoded, and the images it decodes to
Files ==
    { [format |-> "Unknown", content |-> "ok", images |-> <<>>] }
    \cup { [format |-> f, content |-> c, images |-> <<>>] :
             f \in {"Gif", "Static"}, c \in {"unreadable", "corrupt"} }
    \cup { [format |-> "Gif", content |-> "ok", images |-> s] :
             s \in SeqsUpTo(GifFrames, MaxFrames) }
    \cup { [format |-> "Static", content |-> "ok", images |-> <<im>>] :
             im \in StillImages }

MainArgs ==
    [width : {4, 65536}, invert : BOOLEAN, contrast : {One, <<2, 1>>},
     loop_gif : BOOLEAN, color : BOOLEAN]

---------------------------------------------------------------------------
(* main *)

Init ==
    /\ args \in MainArgs
    /\ overflow_checks \in BOOLEAN
    /\ file \in Files
    /\ termOpen = TRUE
    /\ pc = "detect"
    /\ format = "None"
    /\ frames = <<>>
    /\ i = 0
    /\ ascii_frames = <<>>
    /\ ascii_art = NoText
    /\ k = 0
    /\ result = "Running"
    /\ calls = 0
    /\ clears = 0
    /\ pass = 0
    /\ log = <<>>

Event(e, text, ms) == [ev |-> e, text |-> text, ms |-> ms]

\* main ends: Ok(()) , Err(..) through `?` or `return Err`, or a panic
Terminate(r) == pc' = "done" /\ result' = r

\* lines 145-148: ImageFormat::from_path(..)? and the match on the format
DetectFormat ==
    /\ pc = "detect"
    /\ IF file.format = "Unknown"
       THEN Terminate("Err") /\ UNCHANGED format
       ELSE /\ format' = file.format
            /\ pc' = IF file.format = "Gif" THEN "decode_gif" ELSE "open_static"
            /\ UNCHANGED result
    /\ UNCHANGED <<args, overflow_checks, file, termOpen, frames, i,
                   ascii_frames, ascii_art, k, calls, clears, pass, log>>

\* IsEmpty with the check left out
IsEmptyNever(fs) == FALSE

\* the test `frames.is_empty()` of line 160
IsEmpty(fs) == Len(fs) = 0

\* lines 153-166: File::open(..)?, GifDecoder::new(..)?, collect_frames()?,
\* the empty check, and the start of the conversion loop
DecodeGif ==
    /\ pc = "decode_gif"
    /\ IF file.content # "ok"
       THEN Terminate("Err") /\ UNCHANGED <<frames, i>>
       ELSE IF IsEmpty(file.images)
       THEN Terminate("Err") /\ frames' = file.images /\ UNCHANGED i
       ELSE /\ frames' = file.images
            /\ i' = 1
            /\ pc' = "convert"
            /\ UNCHANGED result
    /\ UNCHANGED <<args, overflow_checks, file, termOpen, format,
                   ascii_frames, ascii_art, k, calls, clears, pass, log>>

\* lines 170-171: Duration::from_millis(delay.0 as u64 / delay.1 as u64)
DelayDuration(delay) == delay[1] \div delay[2]

\* line 188: ascii_frames.push((ascii_frame, delay_duration))
Push(v, e) == Append(v, e)

\* ConversionOver with the loop left after its first iteration
ConversionOverEarly(idx, fs) == idx > 1

\* line 167: the iterator over `frames` is exhausted
ConversionOver(idx, fs) == idx > Len(fs)

\* lines 167-189: one iteration of the conversion loop
ConvertFrame ==
    /\ pc = "convert"
    /\ ~ConversionOver(i, frames)
    /\ LET frame == frames[i]
           delay_duration == DelayDuration(frame.delay)
           ascii_frame == image_to_ascii(frame, args.width, args.invert,
                                         args.contrast, args.color,
                                         overflow_checks)
       IN  /\ calls' = calls + 1
           /\ IF ascii_frame.kind = "Panic"
              THEN Terminate("Panic") /\ UNCHANGED <<ascii_frames, i>>
              ELSE /\ ascii_frames' = Push(ascii_frames,
                                           <<ascii_frame, delay_duration>>)
                   /\ i' = i + 1
                   /\ UNCHANGED <<pc, result>>
    /\ UNCHANGED <<args, overflow_checks, file, termOpen, format, frames,
                   ascii_art, k, clears, pass, log>>

\* lines 190-199: the conversion loop is over; clear the screen, flush()?,
\* pause 50 ms and enter the playback loop
StartAnimation ==
    /\ pc = "convert"
    /\ ConversionOver(i, frames)
    /\ clears' = Min(clears + 1, MaxCount)
    /\ IF termOpen
       THEN /\ pc' = "frame_home"
            /\ k' = 1
            /\ pass' = Min(pass + 1, MaxCount)
            /\ UNCHANGED result
       ELSE Terminate("Err") /\ UNCHANGED <<k, pass>>
    /\ UNCHANGED <<args, overflow_checks, file, termOpen, format, frames, i,
                   ascii_frames, ascii_art, calls, log>>

\* CursorHome with the clear of line 203 still in the loop
CursorHomeClearing ==
    /\ pc = "frame_home"
    /\ k <= Len(ascii_frames)
    /\ clears' = Min(clears + 1, MaxCount)
    /\ log' = Append(log, Event("home", NoText, 0))
    /\ pc' = "frame_print"
    /\ UNCHANGED <<args, overflow_checks, file, termOpen, format, frames, i,
                   ascii_frames, ascii_art, k, result, calls, pass>>

\* line 204: print!("\x1B[H") for the next frame of the pass
CursorHome ==
    /\ pc = "frame_home"
    /\ k <= Len(ascii_frames)
    /\ log' = Append(log, Event("home", NoText, 0))
    /\ pc' = "frame_print"
    /\ UNCHANGED <<args, overflow_checks, file, termOpen, format, frames, i,
                   ascii_frames, ascii_art, k, result, calls, clears, pass>>

\* line 206: print!("{}", ascii_frame)
PrintFrame ==
    /\ pc = "frame_print"
    /\ log' = Append(log, Event("text", ascii_frames[k][1], 0))
    /\ pc' = "frame_flush"
    /\ UNCHANGED <<args, overflow_checks, file, termOpen, format, frames, i,
                   ascii_frames, ascii_art, k, result, calls, clears, pass>>

\* line 209: std::io::stdout().flush()?
FlushFrame ==
    /\ pc = "frame_flush"
    /\ IF termOpen
       THEN /\ log' = Append(log, Event("flush", NoText, 0))
            /\ pc' = "frame_sleep"
            /\ UNCHANGED result
       ELSE Terminate("Err") /\ UNCHANGED log
    /\ UNCHANGED <<args, overflow_checks, file, termOpen, format, frames, i,
                   ascii_frames, ascii_art, k, calls, clears, pass>>

\* EffectiveDelay with min for max
EffectiveDelayMin(delay) == Min(delay, MIN_FRAME_DELAY_MS)

\* line 213: (*delay).max(Duration::from_millis(MIN_FRAME_DELAY_MS))
EffectiveDelay(delay) == Max(delay, MIN_FRAME_DELAY_MS)

\* lines 213-215: sleep for the effective delay, then the next frame
SleepFrame ==
    /\ pc = "frame_sleep"
    /\ log' = Append(log, Event("sleep", NoText,
                                EffectiveDelay(ascii_frames[k][2])))
    /\ k' = k + 1
    /\ pc' = "frame_home"
    /\ UNCHANGED <<args, overflow_checks, file, termOpen, format, frames, i,
                   ascii_frames, ascii_art, result, calls, clears, pass>>

\* LeavesLoop with the test inverted
LeavesLoopInverted(loop_gif) == loop_gif

\* LeavesLoop with an unconditional break
LeavesLoopAlways(loop_gif) == TRUE

\* the test of line 216: the playback loop is left after this pass
LeavesLoop(loop_gif) == ~loop_gif

\* lines 216-218 and 242: the pass is over and the loop is left; Ok(())
FinishPlayback ==
    /\ pc = "frame_home"
    /\ k > Len(ascii_frames)
    /\ LeavesLoop(args.loop_gif)
    /\ Terminate("Ok")
    /\ UNCHANGED <<args, overflow_checks, file, termOpen, format, frames, i,
                   ascii_frames, ascii_art, k, calls, clears, pass, log>>

\* lines 220-221 and 199-201: print "Looping...", flush()?, next pass
LoopAgain ==
    /\ pc = "frame_home"
    /\ k > Len(ascii_frames)
    /\ ~LeavesLoop(args.loop_gif)
    /\ IF termOpen
       THEN /\ k' = 1
            /\ pass' = Min(pass + 1, MaxCount)
            /\ log' = <<>>
            /\ UNCHANGED <<pc, result>>
       ELSE Terminate("Err") /\ UNCHANGED <<k, pass, log>>
    /\ UNCHANGED <<args, overflow_checks, file, termOpen, format, frames, i,
                   ascii_frames, ascii_art, calls, clears>>

\* lines 226-232: image::open(..)?
OpenStatic ==
    /\ pc = "open_static"
    /\ IF file.content # "ok"
       THEN Terminate("Err") /\ UNCHANGED frames
       ELSE frames' = file.images /\ pc' = "render_static" /\ UNCHANGED result
    /\ UNCHANGED <<args, overflow_checks, file, termOpen, format, i,
                   ascii_frames, ascii_art, k, calls, clears, pass, log>>

\* lines 234-235: image_to_ascii(&img, ..)?
RenderStatic ==
    /\ pc = "render_static"
    /\ LET art == image_to_ascii(frames[1], args.width, args.invert,
                                 args.contrast, args.color, overflow_checks)
       IN  /\ calls' = calls + 1
           /\ IF art.kind = "Panic"
              THEN Terminate("Panic") /\ UNCHANGED ascii_art
              ELSE ascii_art' = art /\ pc' = "print_static" /\ UNCHANGED result
    /\ UNCHANGED <<args, overflow_checks, file, termOpen, format, frames, i,
                   ascii_frames, k, clears, pass, log>>

\* lines 237-242: print the art; Ok(())
PrintStatic ==
    /\ pc = "print_static"
    /\ log' = Append(log, Event("text", ascii_art, 0))
    /\ Terminate("Ok")
    /\ UNCHANGED <<args, overflow_checks, file, termOpen, format, frames, i,
                   ascii_frames, ascii_art, k, calls, clears, pass>>

\* the environment: the terminal goes away; later flushes fail
CloseTerminal ==
    /\ termOpen
    /\ pc # "done"
    /\ termOpen' = FALSE
    /\ UNCHANGED <<args, overflow_checks, file, pc, format, frames, i,
                   ascii_frames, ascii_art, k, result, calls, clears, pass,
                   log>>

\* the steps of the program
Step ==
    \/ DetectFormat
    \/ DecodeGif
    \/ ConvertFrame
    \/ StartAnimation
    \/ CursorHome
    \/ PrintFrame
    \/ FlushFrame
    \/ SleepFrame
    \/ FinishPlayback
    \/ LoopAgain
    \/ OpenStatic
    \/ RenderStatic
    \/ PrintStatic

Next == Step \/ CloseTerminal

Spec == Init /\ [][Next]_vars

\* the program is one thread that always takes its next step
FairSpec == Spec /\ WF_vars(Step)

---------------------------------------------------------------------------
(* The rendering of one still image, over a sweep of its inputs: main at    *)
(* the call of image_to_ascii of line 235, the image already loaded.        *)

Contrasts ==
    { One, <<1, 2>>, <<3, 2>>, <<2, 1>>, <<0, 1>>, <<-1, 1>>, <<-3, 1>>,
      <<100, 1>>, NaN, <<1, 0>>, <<-1, 0>> }

\* every grey level under every inversion, contrast and colour mode
PixelSweep ==
    { <<[width |-> 1, height |-> 1, px |-> p],
        [width |-> 1, invert |-> v, contrast |-> c, loop_gif |-> FALSE,
         color |-> u]>> :
      p \in 0..255, v \in BOOLEAN, c \in Contrasts, u \in BOOLEAN }

\* every source size under every target width
SizeSweep ==
    { <<[width |-> sw, height |-> sh, px |-> 0],
        [width |-> w, invert |-> FALSE, contrast |-> One, loop_gif |-> FALSE,
         color |-> FALSE]>> :
      sw \in 1..MaxDim, sh \in 1..MaxDim, w \in 0..MaxWidth }

InitRender ==
    /\ \E in \in PixelSweep \cup SizeSweep :
          /\ args = in[2]
          /\ file = [format |-> "Static", content |-> "ok", images |-> <<in[1]>>]
          /\ frames = <<in[1]>>
    /\ overflow_checks = TRUE
    /\ termOpen = TRUE
    /\ pc = "render_static"
    /\ format = "Static"
    /\ i = 0
    /\ ascii_frames = <<>>
    /\ ascii_art = NoText
    /\ k = 0
    /\ result = "Running"
    /\ calls = 0
    /\ clears = 0
    /\ pass = 0
    /\ log = <<>>

NextRender == RenderStatic \/ PrintStatic

RenderSpec == InitRender /\ [][NextRender]_vars

---------------------------------------------------------------------------
(* Claims about image_to_ascii, checked under RenderSpec *)

\* image_to_ascii has returned a text for the image frames[1]
Rendered == pc # "render_static" /\ ascii_art.kind = "Ok"

\* the quotient height * width * 0.55 / img.width of the rendered image, as
\* numerator and denominator
HeightNum == frames[1].height * args.width * 55

HeightDen == 100 * frames[1].width

\* C6: for every source image of width >= 1 and height >= 1 and every target
\* width, 0 and 1 included, the text image_to_ascii returns has at least one
\* row: the target height is >= 1.
C6_HeightAtLeastOne == Rendered => ascii_art.rows >= 1

\* a target width so small that the quotient is below 1 (here 0), rendered
C6_Witness == Rendered /\ HeightNum < HeightDen /\ ascii_art.rows = 1

C8_IndexInRamp ==
    (pc # "render_static" /\ args.width > 0) =>
        /\ PixelIndex(frames[1].px, args.invert, args.contrast, args.color)
               \in 0..(Len(ASCII_CHARS_SIMPLE) - 1)
        /\ result # "Panic"

\* the brightest pixel under contrast 100, where the unclamped intensity is
\* far above 255, rendered as the last glyph of the ramp
C8_Witness ==
    /\ Rendered
    /\ frames[1].px = 255
    /\ args.contrast = <<100, 1>>
    /\ ~args.invert
    /\ ascii_art.character = ASCII_CHARS_SIMPLE[Len(ASCII_CHARS_SIMPLE)]

\* C9: with contrast 1.0, the glyph rendered with invert = true for a pixel
\* of luminance L is the glyph of luminance 255 - L without inversion; a
\* pixel of luminance 0 is rendered ' ' without inversion and '@' with it.
C9_InversionLaw ==
    (Rendered /\ args.width > 0 /\ ~ContrastApplies(args.contrast)) =>
        /\ args.invert =>
             ascii_art.character =
                 ASCII_CHARS_SIMPLE[PixelIndex(255 - frames[1].px, FALSE,
                                               args.contrast, args.color) + 1]
        /\ frames[1].px = 0 =>
             ascii_art.character = IF args.invert THEN "@" ELSE " "

\* an inverted rendering at contrast 1.0 of a pixel whose mirror luminance
\* has another glyph than the pixel's own
C9_Witness ==
    /\ Rendered
    /\ args.invert
    /\ ~ContrastApplies(args.contrast)
    /\ frames[1].px = 40
    /\ ascii_art.character = ASCII_CHARS_SIMPLE[9]

---------------------------------------------------------------------------
(* Claims about main, checked under Spec and FairSpec *)

IsPrefix(a, b) ==
    /\ Len(a) <= Len(b)
    /\ \A j \in 1..Len(a) : a[j] = b[j]

\* the texts printed in the current pass, in the order of their printing
Texts ==
    LET printed == SelectSeq(log, LAMBDA e : e.ev = "text")
    IN  [j \in 1..Len(printed) |-> printed[j].text]

\* the renderings of the decoded frames, in decoded order
Expected ==
    [j \in 1..Len(file.images) |->
        image_to_ascii(file.images[j], args.width, args.invert,
                       args.contrast, args.color, overflow_checks)]

\* the input is a GIF that decodes to at least one frame
Playable ==
    file.format = "Gif" /\ file.content = "ok" /\ Len(file.images) > 0

\* a pass over the frames has just been completed
PassComplete ==
    pc = "frame_home" /\ k > Len(ascii_frames) /\ pass >= 1 /\ Texts = Expected

\* C1: with looping disabled, playback prints every frame once, in decoded
\* order, in a single pass: no second pass begins, the texts printed are at
\* every moment a prefix of the renderings of the decoded frames, and they
\* are all of them when main returns Ok; main returns Err only when the
\* terminal has gone away; and once playback has begun it ends, with Ok
\* unless the terminal has gone away.
C1_SinglePass ==
    /\ []((Playable /\ ~args.loop_gif) =>
            /\ pass <= 1
            /\ IsPrefix(Texts, Expected)
            /\ (pc = "done" /\ result = "Ok") =>
                   (Texts = Expected /\ pass = 1)
            /\ (pc = "done" /\ result = "Err") => ~termOpen)
    /\ ((Playable /\ ~args.loop_gif /\ pass = 1)
           ~> (pc = "done" /\ (result = "Ok" \/ ~termOpen)))

\* main has returned Ok after a pass over two different frames
C1_Witness ==
    /\ Playable
    /\ ~args.loop_gif
    /\ pc = "done"
    /\ result = "Ok"
    /\ Len(file.images) >= 2
    /\ file.images[1] # file.images[2]
    /\ Texts = Expected

\* C2: with looping enabled, main never returns Ok: it ends only by a failed
\* flush (or by a panic of the conversion, before playback); every pass
\* prints the frames in decoded order; and, unless the terminal goes away,
\* complete passes over all the frames keep being made for ever.
C2_LoopsForever ==
    /\ []((Playable /\ args.loop_gif) =>
            /\ IsPrefix(Texts, Expected)
            /\ pc = "done" =>
                   (result = "Panic" \/ (result = "Err" /\ ~termOpen)))
    /\ []<>(\/ ~(Playable /\ args.loop_gif)
            \/ ~termOpen
            \/ result = "Panic"
            \/ PassComplete)

\* a second pass over two frames has been completed
C2_Witness ==
    /\ Playable
    /\ args.loop_gif
    /\ pass >= 2
    /\ Len(file.images) >= 2
    /\ PassComplete

\* the sleep of frame k - 1 has just ended
Slept == file.format = "Gif" /\ pc = "frame_home" /\ k > 1

ConversionFails ==
    Playable /\ \E j \in 1..Len(file.images) : Expected[j].kind = "Panic"

\* C4: for a GIF, the screen is not cleared, no pass begins and nothing is
\* printed until every decoded frame has been converted and ascii_frames
\* holds the (text, delay) pairs of all of them in order; and when the
\* conversion of a frame fails, main ends with that failure and the screen
\* is never cleared and no frame ever printed.
C4_RenderBeforePlay ==
    file.format = "Gif" =>
        /\ (clears > 0 \/ pass > 0 \/ log # <<>>) =>
              /\ calls = Len(file.images)
              /\ ascii_frames =
                    [j \in 1..Len(file.images) |->
                        <<Expected[j],
                          file.images[j].delay[1] \div file.images[j].delay[2]>>]
        /\ ConversionFails =>
              /\ clears = 0 /\ pass = 0 /\ log = <<>>
              /\ result # "Ok"
              /\ pc = "done" => result = "Panic"

\* the first frame of two is on the screen, both having been converted
C4_Witness ==
    /\ file.format = "Gif"
    /\ Len(file.images) >= 2
    /\ calls = 2
    /\ clears = 1
    /\ pc = "frame_flush"
    /\ k = 1

\* the input fails: unknown format, unreadable or corrupt file, empty GIF
InputFails ==
    \/ file.format = "Unknown"
    \/ file.content # "ok"
    \/ (file.format = "Gif" /\ Len(file.images) = 0)

\* C5: when format detection fails, the file cannot be opened or decoded, or
\* a GIF decodes to no frame, image_to_ascii is never called, the screen is
\* never cleared and nothing is printed, main never returns Ok, and it ends
\* with Err; a run that has ended stays ended.
C5_ErrorsPrecedeRendering ==
    /\ InputFails =>
          /\ calls = 0 /\ clears = 0 /\ pass = 0 /\ log = <<>>
          /\ ascii_frames = <<>> /\ ascii_art = NoText
          /\ result \in {"Running", "Err"}
          /\ pc = "done" => result = "Err"
    /\ result # "Running" => pc = "done"

\* main has ended with the "no frames" error of a GIF without frames
C5_Witness ==
    /\ file.format = "Gif"
    /\ file.content = "ok"
    /\ Len(file.images) = 0
    /\ pc = "done"
    /\ result = "Err"

\* C10: in the playback of a GIF the screen is cleared once, before the first
\* frame, and not again in any pass; the events of a pass are, frame after
\* frame, cursor-home, the frame's text, flush and the sleep of the frame's
\* effective delay, so that a frame's cursor-home follows the sleep of the
\* frame before it.
C10_EventOrder ==
    file.format = "Gif" =>
        /\ clears <= 1
        /\ (pass > 0 \/ log # <<>>) => clears = 1
        /\ \A p \in 1..Len(log) :
              LET j == ((p - 1) \div 4) + 1
                  e == log[p]
              IN  /\ j <= Len(ascii_frames)
                  /\ CASE (p - 1) % 4 = 0 -> e = Event("home", NoText, 0)
                       [] (p - 1) % 4 = 1 ->
                              e = Event("text", ascii_frames[j][1], 0)
                       [] (p - 1) % 4 = 2 -> e = Event("flush", NoText, 0)
                       [] OTHER ->
                              e = Event("sleep", NoText,
                                        Max(ascii_frames[j][2], 20))
        /\ pc = "frame_home" => Len(log) = 4 * (k - 1)

\* the second frame's cursor-home in a second pass, the screen cleared once
C10_Witness ==
    /\ file.format = "Gif"
    /\ pass >= 2
    /\ clears = 1
    /\ pc = "frame_print"
    /\ k = 2
    /\ Len(log) = 5

====
